---- MODULE Spec2Model ----
(***************************************************************************)
(* A model of updater/icon_converter.py: the IconConverter class, its      *)
(* conversion ledger (.converted), the per-folder processor                *)
(* process_icon_folder and the run controller run().                       *)
(*                                                                         *)
(* The file system is modelled per icon folder: the source and marker      *)
(* files (name -> content), the generated variant files and the            *)
(* intermediate raster _temp_<base>.png.  Every file operation the code    *)
(* performs can be made to fail by an injected fault; how the code reacts  *)
(* (try/except or not) is translated from the source.                      *)
(***************************************************************************)
EXTENDS Integers, Sequences, FiniteSets, TLC

(* ------------------------------ bounds -------------------------------- *)

\* Number of times the program is launched (main() is one launch).
MaxRuns == 2
\* Number of environment events over a whole behaviour: file operations
\* that fail, and operator edits between launches.
MaxEvents == 1

\* Names of the immediate subdirectories of the icons root, as code points
\* (" x" with a leading space, "x", "xy"): sorted() compares them
\* lexicographically, and line.strip() acts on them when the ledger is read.
FolderNames == {<<32, 120>>, <<120>>, <<120, 121>>}
\* Base names (stems) of source files.
Bases == {"a", "b"}
\* Extensions of the files an icon folder holds.
Exts == {"svg", "xml", "updatesvg", "updatexml", "UPDATEXML"}
\* The encodes (1..15, in the order the code performs them) that a fault
\* may hit: the first, one in the middle, the last.
EncodeFaultAt == {1, 8, 15}

\* No file of that name / no file found by a scan.
NoFile == [absent |-> TRUE]
NoName == [none |-> TRUE]

(* --------------------------- file contents ---------------------------- *)

\* The text of a vector/XML file, as far as the code reads it: whether it
\* parses as XML and the root element's width and height attributes
\* (<<>>: attribute missing).
Svg800 == [wellformed |-> TRUE, width |-> <<"8", "0", "0">>, height |-> <<"8", "0", "0">>]
Svg800px == [wellformed |-> TRUE, width |-> <<"8", "0", "0", "p", "x">>,
             height |-> <<"8", "0", "0", "p", "x">>]
Svg800x500 == [wellformed |-> TRUE, width |-> <<"8", "0", "0">>, height |-> <<"5", "0", "0">>]
Svg500 == [wellformed |-> TRUE, width |-> <<"5", "0", "0">>, height |-> <<"5", "0", "0">>]
SvgNoSize == [wellformed |-> TRUE, width |-> <<>>, height |-> <<"8", "0", "0">>]
ZeroBytes == [wellformed |-> FALSE, width |-> <<>>, height |-> <<>>]

Contents == {Svg800, Svg800px, Svg800x500, Svg500, SvgNoSize, ZeroBytes}

FileNames == [base : Bases, ext : Exts]
FName(b, e) == [base |-> b, ext |-> e]

\* str.lower() on a file suffix.
Lower(e) == IF e = "UPDATEXML" THEN "updatexml" ELSE e

(* ----------------------- IconConverter constants ---------------------- *)

SIZES == <<64, 128, 256, 512, 1024>>
OUTPUT_FORMATS == <<"ico", "png", "jpg">>
\* The order in which _create_variants saves the three files of one size.
SaveOrder == <<"png", "jpg", "ico">>

SeqRange(s) == {s[i] : i \in 1..Len(s)}

(* --------------------------- pure helpers ----------------------------- *)

RECURSIVE LexLess(_, _)
\* Python's < on two names (strings as code points).
LexLess(s, t) ==
    IF s = <<>> THEN t # <<>>
    ELSE IF t = <<>> THEN FALSE
    ELSE IF Head(s) = Head(t) THEN LexLess(Tail(s), Tail(t))
    ELSE Head(s) < Head(t)

RECURSIVE Insert(_, _)
Insert(x, s) ==
    IF s = <<>> THEN <<x>>
    ELSE IF LexLess(x, Head(s)) THEN <<x>> \o s
    ELSE <<Head(s)>> \o Insert(x, Tail(s))

\* A run controller that forgets to sort: the enumeration order as it is.
SortedUnsorted(s) == s

RECURSIVE Sorted(_)
\* sorted(list): ascending order.
Sorted(s) == IF s = <<>> THEN <<>> ELSE Insert(Head(s), Sorted(Tail(s)))

\* All orders in which a directory listing may enumerate the set S.
Orders(S) ==
    {s \in [1..Cardinality(S) -> S] : \A i, j \in 1..Cardinality(S) : i # j => s[i] # s[j]}

\* sorted(a_set): the set enumerated in any order, then sorted.
SortedSet(S) == Sorted(CHOOSE s \in Orders(S) : TRUE)

RECURSIVE RStrip(_, _)
\* str.rstrip(chars): drop trailing characters that are in chars.
RStrip(s, chars) ==
    IF s # <<>> /\ s[Len(s)] \in chars THEN RStrip(SubSeq(s, 1, Len(s) - 1), chars) ELSE s

RECURSIVE LStrip(_, _)
\* str.lstrip(chars): drop leading characters that are in chars.
LStrip(s, chars) ==
    IF s # <<>> /\ s[1] \in chars THEN LStrip(Tail(s), chars) ELSE s

\* The code points str.strip() removes: tab, newline, vertical tab, form
\* feed, carriage return, space.
Whitespace == {9, 10, 11, 12, 13, 32}
\* str.strip()
Strip(s) == LStrip(RStrip(s, Whitespace), Whitespace)

Digits == <<"0", "1", "2", "3", "4", "5", "6", "7", "8", "9">>
DigitVal(c) == (CHOOSE i \in 1..Len(Digits) : Digits[i] = c) - 1

\* Whether float(s) succeeds (decimal digit strings; anything else raises
\* ValueError).
IsFloat(s) == s # <<>> /\ \A i \in 1..Len(s) : s[i] \in SeqRange(Digits)

RECURSIVE ToFloat(_)
ToFloat(s) == IF s = <<>> THEN 0 ELSE 10 * ToFloat(SubSeq(s, 1, Len(s) - 1)) + DigitVal(s[Len(s)])

\* The size gate without the height comparison.
check_svg_size_width_only(c) ==
    /\ c.wellformed
    /\ c.width # <<>> /\ c.height # <<>>
    /\ IsFloat(RStrip(c.width, {"p", "x"}))
    /\ IsFloat(RStrip(c.height, {"p", "x"}))
    /\ ToFloat(RStrip(c.width, {"p", "x"})) = 800

\* _check_svg_size on a file holding content c: TRUE iff the file parses and
\* its root declares width and height both equal to 800 (a trailing run of
\* the characters p, x is stripped first).
check_svg_size(c) ==
    IF ~c.wellformed THEN FALSE
    ELSE IF c.width = <<>> \/ c.height = <<>> THEN FALSE
    ELSE LET width_str == RStrip(c.width, {"p", "x"})
             height_str == RStrip(c.height, {"p", "x"})
         IN  IF ~IsFloat(width_str) \/ ~IsFloat(height_str) THEN FALSE
             ELSE ToFloat(width_str) = 800 /\ ToFloat(height_str) = 800

(* ------------------------------ ledger -------------------------------- *)

\* The ledger file .converted: whether it exists, and its lines.
NoLedger == [exists |-> FALSE, lines |-> <<>>]

\* _load_converted_list: the set of the file's lines, each stripped of
\* leading and trailing whitespace, blank lines left out.
load_converted_list(file) ==
    IF ~file.exists THEN {} ELSE {Strip(l) : l \in SeqRange(file.lines)} \ {<<>>}

\* A save that truncates the file and writes no line.
save_converted_list_nothing(conv) == [exists |-> TRUE, lines |-> <<>>]

\* _save_converted_list: one line per name, sorted.
save_converted_list(conv) == [exists |-> TRUE, lines |-> SortedSet(conv)]

(* --------------------------- file operations -------------------------- *)

\* A folder is [files, variants, temp, hit, ops]:
\*   files    : FileNames -> Contents \cup {NoFile}   (sources and markers)
\*   variants : set of [fmt, base, size, src], the file <fmt>/<base>_<size>.<fmt>
\*              encoded from a render of the content src
\*   temp     : the bases b for which _temp_<b>.png exists
\*   hit      : the injected faults that a file operation ran into
\*   ops      : the file operations (delete, write, render, encode) attempted
\* F is the set of operations that fail in this call.

FaultOps == {"unlink_variants", "unlink_svg", "unlink_xml", "unlink_updatesvg",
             "unlink_updatexml", "xml_to_svg", "svg_to_xml", "render", "encode",
             "unlink_temp", "save_ledger"}

\* The operation op was attempted and failed / was attempted and done.
Hit(st, op) == [st EXCEPT !.hit = @ \cup {op}, !.ops = @ \cup {op}]
Did(st, op) == [st EXCEPT !.ops = @ \cup {op}]

\* An unlink that reports success and leaves the file in place.
UnlinkKeepsFile(st, n, op, F) ==
    IF op \in F THEN Hit(st, op) ELSE Did(st, op)

\* file.unlink() inside try/except: a failure is logged and the file stays.
Unlink(st, n, op, F) ==
    IF op \in F THEN Hit(st, op) ELSE Did([st EXCEPT !.files[n] = NoFile], op)

\* A copy that writes nothing.
CopyNothing(st, from, to, op, F) == st

\* Read one file and write its text to another, inside try/except.
Copy(st, from, to, op, F) ==
    IF op \in F THEN Hit(st, op) ELSE Did([st EXCEPT !.files[to] = st.files[from]], op)

\* An _svg_to_xml that creates the XML file and writes no text to it.
svg_to_xml_empty(st, svg_path, F) ==
    IF "svg_to_xml" \in F THEN Hit(st, "svg_to_xml")
    ELSE Did([st EXCEPT !.files[FName(svg_path.base, "xml")] = ZeroBytes], "svg_to_xml")

\* _svg_to_xml: <stem>.xml := text of the vector file.
svg_to_xml(st, svg_path, F) == Copy(st, svg_path, FName(svg_path.base, "xml"), "svg_to_xml", F)

\* _xml_to_svg: <stem>.svg := text of the XML file.
xml_to_svg(st, xml_path, F) == Copy(st, xml_path, FName(xml_path.base, "svg"), "xml_to_svg", F)

\* A deletion that deletes nothing.
delete_converted_files_noop(st, base_name, F) == st

\* _delete_converted_files: unlink every <fmt>/<base_name>_*.<fmt>, each in
\* its own try/except.
delete_converted_files(st, base_name, F) ==
    LET old == {v \in st.variants : v.base = base_name /\ v.fmt \in SeqRange(OUTPUT_FORMATS)}
    IN  IF old = {} THEN st
        ELSE IF "unlink_variants" \in F THEN Hit(st, "unlink_variants")
        ELSE Did([st EXCEPT !.variants = @ \ old], "unlink_variants")

NumEncodes == Len(SIZES) * Len(SaveOrder)

\* The k-th file _create_variants saves: sizes outermost, png, jpg, ico within.
EncodeSize(k) == SIZES[((k - 1) \div Len(SaveOrder)) + 1]
EncodeFmt(k) == SaveOrder[((k - 1) % Len(SaveOrder)) + 1]

\* The variants after the first n encodes of content c under base_name.
WriteVariants(vs, base_name, c, n) ==
    LET names == {<<EncodeFmt(k), EncodeSize(k)>> : k \in 1..n}
    IN  {v \in vs : ~(v.base = base_name /\ <<v.fmt, v.size>> \in names)}
        \cup {[fmt |-> EncodeFmt(k), base |-> base_name, size |-> EncodeSize(k), src |-> c] :
                k \in 1..n}

\* A generator that stops after the first size.
create_variants_first_size(st, source_path, base_name, F, at) ==
    [st |-> [st EXCEPT !.variants = WriteVariants(@, base_name, st.files[source_path],
                                                   Len(SaveOrder))],
     ok |-> TRUE]

\* A generator that logs a failed encode and carries on with success.
create_variants_encode_ignored(st, source_path, base_name, F, at) ==
    IF Lower(source_path.ext) # "svg" THEN [st |-> st, ok |-> FALSE]
    ELSE IF "render" \in F THEN [st |-> Hit(st, "render"), ok |-> FALSE]
    ELSE LET n == IF "encode" \in F THEN at - 1 ELSE NumEncodes
             saved == Did(Did([st EXCEPT
                             !.variants = WriteVariants(@, base_name, st.files[source_path], n)],
                          "render"), "encode")
         IN  [st |-> Did(IF "encode" \in F THEN Hit(saved, "encode") ELSE saved, "unlink_temp"),
              ok |-> TRUE]

\* _create_variants: render to _temp_<base>.png, save the 15 files, remove
\* the temp file; any exception ends it with False.  `at` is the encode an
\* "encode" fault hits.
create_variants(st, source_path, base_name, F, at) ==
    IF Lower(source_path.ext) # "svg" THEN [st |-> st, ok |-> FALSE]
    ELSE IF "render" \in F THEN [st |-> Hit(st, "render"), ok |-> FALSE]
    ELSE LET n == IF "encode" \in F THEN at - 1 ELSE NumEncodes
             rendered == Did([st EXCEPT !.temp = @ \cup {base_name}], "render")
             saved == Did([rendered EXCEPT
                             !.variants = WriteVariants(@, base_name, st.files[source_path], n)],
                          "encode")
         IN  IF "encode" \in F THEN [st |-> Hit(saved, "encode"), ok |-> FALSE]
             ELSE IF "unlink_temp" \in F THEN [st |-> Hit(saved, "unlink_temp"), ok |-> FALSE]
             ELSE [st |-> Did([saved EXCEPT !.temp = @ \ {base_name}], "unlink_temp"),
                   ok |-> TRUE]

(* ------------------------- process_icon_folder ------------------------ *)

\* A suffix test that compares the suffix as it is.
FilesWithSuffixExact(st, e) == {n \in FileNames : st.files[n] # NoFile /\ n.ext = e}

\* The files of a folder whose lower-cased suffix is e.
FilesWithSuffix(st, e) == {n \in FileNames : st.files[n] # NoFile /\ Lower(n.ext) = e}

\* glob()/iterdir() enumerate in no fixed order and the loops keep the last
\* match: any of the matching files, or none if there is none.
Pick(S) == IF S = {} THEN {NoName} ELSE S

Ret(st, conv, ledger, result) ==
    [st |-> st, conv |-> conv, ledger |-> ledger, result |-> result]

\* Lines 350-364: regenerate from svg_file if it exists, else fall through to
\* line 367, where the (ledgered) folder is skipped.
Regenerate(st, svg_file, conv, ledger, F, at) ==
    IF svg_file # NoName /\ st.files[svg_file] # NoFile
    THEN IF ~check_svg_size(st.files[svg_file]) THEN Ret(st, conv, ledger, "failed")
         ELSE LET cv == create_variants(st, svg_file, svg_file.base, F, at)
              IN  Ret(cv.st, conv, ledger, IF cv.ok THEN "ok" ELSE "failed")
    ELSE Ret(st, conv, ledger, "ok")

\* Lines 294-364 for a ledgered folder that holds a marker; doA and doB are
\* the conditions of the two marker blocks (lines 295 and 323).  The ops
\* "test_updatesvg" and "test_updatexml" record that control evaluated the
\* condition of the block.
MarkerBlocks(st, conv, ledger, pick, F, at, doA, doB) ==
    LET svg0 == pick.svg
        xml0 == pick.xml
        st0 == Did(st, "test_updatesvg")
        a1 == delete_converted_files(st0, svg0.base, F)
        a2 == Unlink(a1, svg0, "unlink_svg", F)
        a3 == Unlink(a2, pick.usf, "unlink_updatesvg", F)
        stA == Did(IF doA THEN xml_to_svg(a3, xml0, F) ELSE st0, "test_updatexml")
        svgA == IF doA THEN FName(xml0.base, "svg") ELSE svg0
        b1 == delete_converted_files(stA, xml0.base, F)
        b2 == Unlink(b1, xml0, "unlink_xml", F)
        b3 == Unlink(b2, pick.uxf, "unlink_updatexml", F)
        stB == IF doB THEN svg_to_xml(b3, svgA, F) ELSE stA
    IN  IF doA /\ xml0 = NoName THEN Ret(a3, conv, ledger, "failed")
        ELSE IF doB /\ ~(svgA # NoName /\ b3.files[svgA] # NoFile)
        THEN Ret(b3, conv, ledger, "failed")
        ELSE Regenerate(stB, svgA, conv, ledger, F, at)

\* The second block as an elif of the first.
MarkerPathElif(st, conv, ledger, pick, F, at) ==
    MarkerBlocks(st, conv, ledger, pick, F, at,
                 pick.usf # NoName /\ pick.svg # NoName,
                 pick.uxf # NoName /\ pick.xml # NoName
                     /\ ~(pick.usf # NoName /\ pick.svg # NoName))

\* Lines 281-364: the folder is ledgered and holds a marker.
MarkerPath(st, conv, ledger, pick, F, at) ==
    MarkerBlocks(st, conv, ledger, pick, F, at,
                 pick.usf # NoName /\ pick.svg # NoName,
                 pick.uxf # NoName /\ pick.xml # NoName)

\* Lines 371-410: find the sources, make the missing one of the pair,
\* check the size, generate, record the folder in the ledger.
Convert(st, folder_name, conv, ledger, pick, F, at) ==
    IF pick.svg = NoName /\ pick.xml = NoName THEN Ret(st, conv, ledger, "failed")
    ELSE LET synced == IF pick.svg # NoName /\ pick.xml = NoName
                         THEN svg_to_xml(st, pick.svg, F)
                       ELSE IF pick.xml # NoName /\ pick.svg = NoName
                         THEN xml_to_svg(st, pick.xml, F)
                       ELSE st
             svg_file == IF pick.svg # NoName THEN pick.svg ELSE FName(pick.xml.base, "svg")
         IN  IF synced.files[svg_file] # NoFile
             THEN IF ~check_svg_size(synced.files[svg_file])
                  THEN Ret(synced, conv, ledger, "failed")
                  ELSE LET cv == create_variants(synced, svg_file, svg_file.base, F, at)
                           added == conv \cup {folder_name}
                       IN  IF ~cv.ok THEN Ret(cv.st, conv, ledger, "failed")
                           ELSE IF "save_ledger" \in F
                           THEN Ret(Hit(cv.st, "save_ledger"), added, ledger, "raised")
                           ELSE Ret(Did(cv.st, "save_ledger"), added,
                                    save_converted_list(added), "ok")
             ELSE Ret(synced, conv, ledger, "failed")

\* A normal path without the ledger test.
NormalPathNoSkip(st, folder_name, conv, ledger, pick, F, at) ==
    Convert(st, folder_name, conv, ledger, pick, F, at)

\* Lines 366-410: no marker, or a marker path that fell through.  A ledgered
\* folder is skipped.
NormalPath(st, folder_name, conv, ledger, pick, F, at) ==
    IF folder_name \in conv THEN Ret(st, conv, ledger, "ok")
    ELSE Convert(st, folder_name, conv, ledger, pick, F, at)

\* process_icon_folder(folder_path).  pick = [usf, uxf, svg, xml]: the marker
\* and source files the directory scans end on.  The result is "ok" (True),
\* "failed" (False) or "raised" (an exception leaves the method).
process_icon_folder(st, folder_name, conv, ledger, pick, F, at) ==
    IF pick.usf # NoName \/ pick.uxf # NoName
    THEN IF folder_name \notin conv THEN Ret(st, conv, ledger, "ok")
         ELSE MarkerPath(st, conv, ledger, pick, F, at)
    ELSE NormalPath(st, folder_name, conv, ledger, pick, F, at)

(* ------------------------------- state -------------------------------- *)

VARIABLES
    rootExists,        \* whether an icons folder is found next to the program
    dirs,              \* the names of the subdirectories of the icons root
    disk,              \* disk[f] = [files, variants, temp] of icon folder f
    ledgerFile,        \* the .converted file: [exists, lines]
    converted_files,   \* self.converted_files
    pc,                \* "start", "constructed", "loop", "done", "crashed", "fatal"
    queue,             \* run(): the folders still to be processed
    successful,        \* run(): successful
    failed,            \* run(): failed
    runResult,         \* what run() returned: "none", "true", "false"
    processed,         \* the calls of process_icon_folder in this run, in order
    last,              \* the last call of process_icon_folder, with its pre-state
    runs,              \* launches so far
    edits,             \* operator edits so far
    faults,            \* failed file operations so far
    failedBefore       \* history: the folders whose latest call failed in a marker-free folder

vars == <<rootExists, dirs, disk, ledgerFile, converted_files, pc, queue, successful,
          failed, runResult, processed, last, runs, edits, faults, failedBefore>>

NoCall == [folder |-> <<>>, result |-> "none"]

\* The 15 variants of base b encoded from content c.
FullMatrix(b, c) == WriteVariants({}, b, c, NumEncodes)

(* What an operator may have put into a folder before the first launch.    *)
InitSvg == {NoFile, Svg800, Svg800x500, SvgNoSize, ZeroBytes}
InitXml == {NoName} \cup [base : {"a"}, content : {Svg800, Svg800px, Svg500}]
              \cup {[base |-> "b", content |-> Svg800px]}
InitUsf == {NoName, FName("a", "updatesvg")}
InitUxf == {NoName, FName("a", "updatexml"), FName("a", "UPDATEXML")}

MkFiles(svg, xml, usf, uxf) ==
    [n \in FileNames |->
        IF n = FName("a", "svg") THEN svg
        ELSE IF xml # NoName /\ n = FName(xml.base, "xml") THEN xml.content
        ELSE IF n = usf \/ n = uxf THEN ZeroBytes
        ELSE NoFile]

\* A folder an earlier launch converted (ledgered, with the matrix of a.svg
\* as it then was) or never converted; its sources and markers are the
\* operator's.
RichConfigs ==
    {[ledgered |-> l, files |-> MkFiles(svg, xml, usf, uxf),
      variants |-> IF l THEN FullMatrix("a", Svg800) ELSE {}, temp |-> {}] :
        l \in BOOLEAN, svg \in InitSvg, xml \in InitXml, usf \in InitUsf, uxf \in InitUxf}

\* A folder that was never converted and holds at most a vector file.
LeanConfigs ==
    {[ledgered |-> FALSE, files |-> MkFiles(svg, NoName, NoName, NoName),
      variants |-> {}, temp |-> {}] : svg \in {NoFile, Svg800, Svg500}}

\* The folder with the rich configuration, and the one processed after it.
Focus == <<120>>
Companion == <<121>>

InitWith(D, cfg) ==
    /\ rootExists = TRUE
    /\ dirs = D
    /\ disk = [f \in D |-> [files |-> cfg[f].files, variants |-> cfg[f].variants,
                            temp |-> cfg[f].temp]]
    /\ ledgerFile = IF \E f \in D : cfg[f].ledgered
                    THEN save_converted_list({f \in D : cfg[f].ledgered})
                    ELSE NoLedger

\* No icons folder; an empty icons folder; one folder in any configuration
\* followed by a fresh one; or every folder fresh.
Init ==
    /\ \/ /\ rootExists = FALSE /\ dirs = {} /\ disk = <<>> /\ ledgerFile = NoLedger
       \/ InitWith({}, <<>>)
       \/ \E rich \in RichConfigs : \E lean \in LeanConfigs :
             /\ lean.files[FName("a", "svg")] = Svg800
             /\ InitWith({Focus, Companion},
                         [f \in {Focus, Companion} |-> IF f = Focus THEN rich ELSE lean])
       \/ \E cfg \in [FolderNames -> LeanConfigs] : InitWith(FolderNames, cfg)
    /\ converted_files = {}
    /\ pc = "start"
    /\ queue = <<>>
    /\ successful = 0
    /\ failed = 0
    /\ runResult = "none"
    /\ processed = <<>>
    /\ last = NoCall
    /\ runs = 0
    /\ edits = 0
    /\ faults = 0
    /\ failedBefore = {}

(* ------------------------------ actions ------------------------------- *)

\* main(): IconConverter() -- _find_icons_folder raises when there is no
\* icons folder (main logs it and exits 1); otherwise the ledger is loaded.
Launch ==
    /\ pc \in {"start", "done", "crashed"}
    /\ runs < MaxRuns
    /\ runs' = runs + 1
    /\ pc' = IF rootExists THEN "constructed" ELSE "fatal"
    /\ converted_files' = IF rootExists THEN load_converted_list(ledgerFile) ELSE {}
    /\ queue' = <<>>
    /\ successful' = 0
    /\ failed' = 0
    /\ runResult' = "none"
    /\ processed' = <<>>
    /\ last' = NoCall
    /\ UNCHANGED <<rootExists, dirs, disk, ledgerFile, edits, faults, failedBefore>>

\* run(), lines 412-431: list the subdirectories (in any order), return
\* False if there are none, else sort them.
RunStart ==
    /\ pc = "constructed"
    /\ \E order \in Orders(dirs) :
          IF ~rootExists \/ order = <<>>
          THEN /\ pc' = "done"
               /\ runResult' = "false"
               /\ queue' = <<>>
          ELSE /\ pc' = "loop"
               /\ runResult' = runResult
               /\ queue' = Sorted(order)
    /\ UNCHANGED <<rootExists, dirs, disk, ledgerFile, converted_files, successful, failed,
                   processed, last, runs, edits, faults, failedBefore>>

\* The sets of at most k operations that fail in one call.
FaultSets(k) ==
    IF k <= 0 THEN {{}}
    ELSE IF k = 1 THEN {{}} \cup {{op} : op \in FaultOps}
    ELSE {X \in SUBSET FaultOps : Cardinality(X) <= k}

StateOf(d) ==
    [files |-> d.files, variants |-> d.variants, temp |-> d.temp, hit |-> {}, ops |-> {}]
DiskOf(st) == [files |-> st.files, variants |-> st.variants, temp |-> st.temp]

\* run(), lines 433-437: one iteration of the loop.  An exception leaving
\* process_icon_folder leaves run() too; main logs it and exits 1.
RunStep ==
    /\ pc = "loop"
    /\ queue # <<>>
    /\ LET f == Head(queue)
           st == StateOf(disk[f])
       IN  \E F \in FaultSets(MaxEvents - (edits + faults)) :
           \E at \in (IF "encode" \in F THEN EncodeFaultAt ELSE {0}) :
           \E usf \in Pick(FilesWithSuffix(st, "updatesvg")) :
           \E uxf \in Pick(FilesWithSuffix(st, "updatexml")) :
           \E svg \in Pick(FilesWithSuffix(st, "svg")) :
           \E xml \in Pick(FilesWithSuffix(st, "xml")) :
             LET pick == [usf |-> usf, uxf |-> uxf, svg |-> svg, xml |-> xml]
             IN  \E r \in {process_icon_folder(st, f, converted_files, ledgerFile, pick, F, at)} :
                 /\ r.st.hit = F
                 /\ faults' = faults + Cardinality(F)
                 /\ disk' = [disk EXCEPT ![f] = DiskOf(r.st)]
                 /\ converted_files' = r.conv
                 /\ ledgerFile' = r.ledger
                 /\ processed' = Append(processed, [folder |-> f, result |-> r.result])
                 /\ last' = [folder |-> f, result |-> r.result, pre |-> disk[f],
                             conv |-> converted_files, ledger |-> ledgerFile,
                             pick |-> pick, hit |-> F, at |-> at, ops |-> r.st.ops,
                             failedBefore |-> f \in failedBefore]
                 /\ failedBefore' = IF r.result = "failed" /\ usf = NoName /\ uxf = NoName
                                    THEN failedBefore \cup {f}
                                    ELSE failedBefore \ {f}
                 /\ pc' = IF r.result = "raised" THEN "crashed" ELSE "loop"
                 /\ queue' = IF r.result = "raised" THEN queue ELSE Tail(queue)
                 /\ successful' = IF r.result = "ok" THEN successful + 1 ELSE successful
                 /\ failed' = IF r.result = "failed" THEN failed + 1 ELSE failed
    /\ UNCHANGED <<rootExists, dirs, runResult, runs, edits>>

\* run(), lines 439-444: the tally and the overall result.
RunFinish ==
    /\ pc = "loop"
    /\ queue = <<>>
    /\ pc' = "done"
    /\ runResult' = IF failed = 0 THEN "true" ELSE "false"
    /\ UNCHANGED <<rootExists, dirs, disk, ledgerFile, converted_files, queue, successful,
                   failed, processed, last, runs, edits, faults, failedBefore>>

\* Between launches the operator rewrites a source file.
OperatorEditSource ==
    /\ pc \in {"done", "crashed"}
    /\ runs < MaxRuns
    /\ edits + faults < MaxEvents
    /\ \E f \in dirs : \E n \in FileNames : \E c \in {Svg800, Svg500} :
          /\ n.ext \in {"svg", "xml"}
          /\ disk[f].files[n] \notin {NoFile, c}
          /\ disk' = [disk EXCEPT ![f].files[n] = c]
    /\ edits' = edits + 1
    /\ last' = NoCall
    /\ UNCHANGED <<rootExists, dirs, ledgerFile, converted_files, pc, queue, successful,
                   failed, runResult, processed, runs, faults, failedBefore>>

Next ==
    \/ Launch
    \/ RunStart
    \/ RunStep
    \/ RunFinish
    \/ OperatorEditSource

Spec == Init /\ [][Next]_vars

(* ======================= properties of the claims ===================== *)

\* A call of process_icon_folder has just been made: last holds its folder,
\* result, picks and faults and the folder, ledger and set before the call;
\* disk, ledgerFile and converted_files are as the call left them.
Called == last.result # "none"
Pre == last.pre
Cur == disk[last.folder]
WasLedgered == last.folder \in last.conv

\* The update markers of a folder (suffix compared case-insensitively).
Markers(d) ==
    {n \in FileNames : d.files[n] # NoFile /\ Lower(n.ext) \in {"updatesvg", "updatexml"}}
UpdateSvgMarkers(d) ==
    {n \in FileNames : d.files[n] # NoFile /\ Lower(n.ext) = "updatesvg"}

\* The content declares width and height 800 (a unit suffix px allowed).
Declares800x800(c) ==
    /\ c.wellformed
    /\ RStrip(c.width, {"p", "x"}) = <<"8", "0", "0">>
    /\ RStrip(c.height, {"p", "x"}) = <<"8", "0", "0">>

\* The content declares a numeric width and height that are not 800 x 800.
DeclaresOtherSize(c) ==
    /\ c.wellformed
    /\ IsFloat(RStrip(c.width, {"p", "x"}))
    /\ IsFloat(RStrip(c.height, {"p", "x"}))
    /\ ~Declares800x800(c)

InLedgerFile(f, file) == file.exists /\ \E i \in 1..Len(file.lines) : file.lines[i] = f

\* The call attempted no file operation and left everything as it was.
NothingChanged ==
    /\ last.ops = {}
    /\ Cur = Pre
    /\ converted_files = last.conv
    /\ ledgerFile = last.ledger

(* ---- C1 ---- *)

\* C1 (skip rule, idempotence): a call on a folder whose name is in the
\* ledger and which holds no update marker returns success, performs no
\* file operation and leaves the folder, the ledger file and the in-memory
\* ledger exactly as they were -- in every launch, however many came before.
C1_SkipIsNoOp ==
    (Called /\ WasLedgered /\ Markers(Pre) = {})
        => (last.result = "ok" /\ last.hit = {} /\ NothingChanged)

\* A ledgered, marker-free folder has been processed in a second launch.
C1_Witness ==
    Called /\ WasLedgered /\ Markers(Pre) = {} /\ runs >= 2 /\ last.result = "ok"
        /\ Pre.variants # {}

(* ---- C2 ---- *)

\* What the claim promises after an .updatesvg marker was handled: (a) no
\* .updatesvg marker is left, (b) the old variants of the vector file's base
\* name are gone or rewritten and the new matrix is complete, (c) the
\* folder is in the ledger, once, (d) the vector file holds what the XML
\* file held before the call.
C2_Post ==
    LET s == last.pick.svg
        x == last.pick.xml
    IN  /\ s # NoName
        /\ x # NoName
        /\ UpdateSvgMarkers(Cur) = {}
        /\ \A v \in Pre.variants :
              (v.base = s.base /\ v \in Cur.variants) => v \in FullMatrix(x.base, Pre.files[x])
        /\ FullMatrix(x.base, Pre.files[x]) \subseteq Cur.variants
        /\ last.folder \in converted_files
        /\ Cardinality({i \in 1..Len(ledgerFile.lines) : ledgerFile.lines[i] = last.folder}) = 1
        /\ Cur.files[FName(x.base, "svg")] = Pre.files[x]

VariantsMaterialized(d) == \E b \in Bases : \E c \in Contents : FullMatrix(b, c) \subseteq d.variants

\* C3 as claimed: after a processing attempt the folder is in the ledger
\* iff the attempt completed successfully with its variants on disk.
\* (Stated for the calls in which no file operation fails; the claim covers
\* more.)
C3_Original ==
    (Called /\ last.hit = {}) => ((last.folder \in converted_files)
                  <=> (last.result = "ok" /\ VariantsMaterialized(Cur)))

\* C3 as amended: after a processing attempt the folder is in the ledger
\* file iff it was there before the attempt or the attempt was a marker-free
\* conversion that returned success with its complete matrix on disk; and
\* no attempt removes a name from the ledger, in memory or in the file.
C3_LedgerInvariant ==
    Called =>
        /\ InLedgerFile(last.folder, ledgerFile)
              <=> \/ InLedgerFile(last.folder, last.ledger)
                  \/ (/\ ~WasLedgered /\ Markers(Pre) = {}
                      /\ last.result = "ok" /\ VariantsMaterialized(Cur))
        /\ last.conv \subseteq converted_files
        /\ load_converted_list(last.ledger) \subseteq load_converted_list(ledgerFile)

\* A ledgered folder whose marker-driven regeneration failed is still in the
\* ledger.
C3_Witness ==
    /\ Called /\ WasLedgered /\ Markers(Pre) # {} /\ last.result = "failed"
    /\ InLedgerFile(last.folder, ledgerFile)
    /\ ~VariantsMaterialized(Cur)

(* ---- C4 ---- *)

\* The vector file the generation step of the call is run on: on the marker
\* path the file restored from the XML file (or the vector file found, when
\* no .updatesvg marker was handled), on the normal path the vector file
\* found or made from the XML file.  NoName when the call is a skip.
Master ==
    LET s == last.pick.svg
        x == last.pick.xml
    IN  IF Markers(Pre) # {}
        THEN IF ~WasLedgered THEN NoName
             ELSE IF UpdateSvgMarkers(Pre) # {} /\ s # NoName
                  THEN (IF x # NoName THEN FName(x.base, "svg") ELSE NoName)
                  ELSE s
        ELSE IF WasLedgered THEN NoName
             ELSE IF s # NoName THEN s
             ELSE IF x # NoName THEN FName(x.base, "svg")
             ELSE NoName

\* C4 (size gate): when the vector master of a call -- normal path or
\* marker-driven regeneration -- declares a width or height other than 800,
\* the call writes no variant file, returns failure and does not add the
\* folder to the ledger.
C4_SizeGate ==
    (Called /\ Master # NoName /\ Cur.files[Master] # NoFile
        /\ DeclaresOtherSize(Cur.files[Master]))
        => /\ last.result = "failed"
           /\ Cur.variants \subseteq Pre.variants
           /\ converted_files = last.conv
           /\ ledgerFile = last.ledger

\* A marker-driven regeneration met a master that declares 800 x 500 or
\* 500 x 500.
C4_Witness ==
    /\ Called /\ Master # NoName /\ Cur.files[Master] # NoFile
    /\ DeclaresOtherSize(Cur.files[Master])
    /\ Markers(Pre) # {}
    /\ last.result = "failed"

(* ---- C5 ---- *)

\* The folder held a vector file and no XML file / an XML file and no vector
\* file before the call.
OnlySvg == last.pick.svg # NoName /\ last.pick.xml = NoName
OnlyXml == last.pick.xml # NoName /\ last.pick.svg = NoName

\* After the call both files of the pair exist under the base name b with
\* the text c.
Synced(b, c) == Cur.files[FName(b, "svg")] = c /\ Cur.files[FName(b, "xml")] = c

\* C5 as claimed: whatever the ledger status and the markers, a folder with
\* only one file of the pair has both, with equal text, after the call.
\* (Stated for the calls in which no file operation fails; the claim covers
\* more.)
C5_Original ==
    (Called /\ last.hit = {}) =>
        /\ OnlySvg => Synced(last.pick.svg.base, Pre.files[last.pick.svg])
        /\ OnlyXml => Synced(last.pick.xml.base, Pre.files[last.pick.xml])

\* C5 as amended: for a folder that is not in the ledger and holds no update
\* marker, and unless the copy itself fails: a folder with only one file of
\* the pair has both, with equal text, after the call -- whatever the
\* outcome of the size check and of the generation.
C5_SyncInvariant ==
    (Called /\ ~WasLedgered /\ Markers(Pre) = {}
        /\ "svg_to_xml" \notin last.hit /\ "xml_to_svg" \notin last.hit)
        => /\ OnlySvg => Synced(last.pick.svg.base, Pre.files[last.pick.svg])
           /\ OnlyXml => Synced(last.pick.xml.base, Pre.files[last.pick.xml])

\* An unledgered, marker-free folder with only an XML file that fails the
\* size check has been processed.
C5_Witness ==
    /\ Called /\ ~WasLedgered /\ Markers(Pre) = {} /\ OnlyXml
    /\ last.hit = {} /\ last.result = "failed"
    /\ Cur.files[FName(last.pick.xml.base, "svg")] # NoFile

(* ---- C6 ---- *)

\* C6 (unconverted marker is skipped): a call on a folder that is not in the
\* ledger and holds an update marker (.updatesvg or .updatexml, in any case)
\* returns success, performs no file operation and leaves the folder and
\* the ledger as they were.
C6_UnconvertedMarkerSkipped ==
    (Called /\ ~WasLedgered /\ Markers(Pre) # {})
        => (last.result = "ok" /\ last.hit = {} /\ NothingChanged)

\* An unledgered folder with an upper-case .UPDATEXML marker and a
\* convertible vector file has been processed.
C6_Witness ==
    /\ Called /\ ~WasLedgered
    /\ Pre.files[FName("a", "UPDATEXML")] # NoFile
    /\ Pre.files[FName("a", "updatesvg")] = NoFile
    /\ Pre.files[FName("a", "svg")] = Svg800
    /\ last.result = "ok"

(* ---- C7 ---- *)

ProcessedFolders == {processed[i].folder : i \in 1..Len(processed)}

\* C7 as claimed: whatever fails inside a folder -- a failure to write the
\* ledger file included -- run() goes on to every remaining folder and
\* finishes with its tally: it is never cut short, and when it has ended
\* every folder has been processed.
C7_FailuresAreFolderScoped ==
    /\ pc # "crashed"
    /\ (pc = "done" /\ dirs # {}) => ProcessedFolders = dirs

(* ---- C8 ---- *)

\* C8 as claimed: when the ledger file cannot be written while a converted
\* folder is recorded, the call reports the folder as failed and the folder
\* is not ledgered afterwards.
C8_LedgerWriteFailureFails ==
    (Called /\ "save_ledger" \in last.hit)
        => (last.result = "failed" /\ last.folder \notin converted_files)

(* ---- C9 ---- *)

\* C9 (matrix completeness): a successful marker-free conversion whose
\* master has base name B leaves exactly the 15 files <fmt>/B_<size>.<fmt>,
\* size in SIZES and fmt in {png, jpg, ico}, each encoded from the master;
\* the master declares 800 x 800 and the call wrote no other variant.
C9_MatrixCompleteness ==
    (Called /\ ~WasLedgered /\ Markers(Pre) = {} /\ last.result = "ok")
        => /\ Master # NoName
           /\ Declares800x800(Cur.files[Master])
           /\ LET made == {v \in Cur.variants : v.base = Master.base}
              IN  /\ Cardinality(made) = 15
                  /\ {<<v.size, v.fmt>> : v \in made}
                        = {64, 128, 256, 512, 1024} \X {"png", "jpg", "ico"}
                  /\ \A v \in made : v.src = Cur.files[Master]
           /\ \A v \in Cur.variants \ Pre.variants : v.base = Master.base

\* A folder with a.svg declaring 800 x 800 has been converted.
C9_Witness ==
    /\ Called /\ ~WasLedgered /\ Markers(Pre) = {} /\ last.result = "ok"
    /\ Pre.files[FName("a", "svg")] # NoFile
    /\ Pre.variants = {}

(* ---- C10 ---- *)

AllOk == \A i \in 1..Len(processed) : processed[i].result = "ok"

\* C10 as claimed: for any set of subdirectories, when run() has returned
\* every subdirectory has been processed exactly once, in ascending order,
\* and the result is true exactly when every processed folder succeeded.
C10_Original ==
    pc = "done" =>
        /\ ProcessedFolders = dirs
        /\ \A i, j \in 1..Len(processed) :
              i < j => LexLess(processed[i].folder, processed[j].folder)
        /\ (runResult = "true") <=> AllOk

\* C10 as amended: at every moment of a run the folders processed so far
\* are subdirectories of the root, in strictly ascending name order (none
\* twice); when run() has returned every subdirectory has been processed,
\* and the result is true exactly when there is at least one subdirectory
\* and every processed folder succeeded (with no subdirectory the result is
\* false).
C10_RunAggregate ==
    /\ ProcessedFolders \subseteq dirs
    /\ \A i, j \in 1..Len(processed) :
          i < j => LexLess(processed[i].folder, processed[j].folder)
    /\ pc = "done" =>
          /\ ProcessedFolders = dirs
          /\ (runResult = "true") <=> (dirs # {} /\ AllOk)

\* A run over three folders has returned false after a failure in the
\* second folder, the third having been processed all the same.
C10_Witness ==
    /\ pc = "done" /\ Len(processed) = 3 /\ runResult = "false"
    /\ processed[1].result = "ok"
    /\ processed[2].result = "failed"
    /\ processed[3].result = "ok"

(* ---- C11 ---- *)

UpdateXmlMarkers(d) ==
    {n \in FileNames : d.files[n] # NoFile /\ Lower(n.ext) = "updatexml"}

\* C11 (regeneration step 1): a call on a ledgered folder that holds an
\* .updatesvg marker but no vector file reports the folder as failed, and
\* so does a call on a ledgered folder that holds an .updatexml marker but
\* no XML file.
C11_MissingSourceFails ==
    (/\ Called /\ WasLedgered
     /\ \/ (UpdateSvgMarkers(Pre) # {} /\ last.pick.svg = NoName)
        \/ (UpdateXmlMarkers(Pre) # {} /\ last.pick.xml = NoName))
        => last.result = "failed"

(* ---- C12 ---- *)

\* C12 (a marker is consumed by successful handling): whenever a call on a
\* ledgered folder that held an update marker returns success, no marker
\* the folder held before the call exists after it, so that the next
\* launch finds the folder ledgered and marker-free and skips it.
C12_SuccessConsumesMarker ==
    (Called /\ WasLedgered /\ Markers(Pre) # {} /\ last.result = "ok")
        => /\ \A n \in Markers(Pre) : Cur.files[n] = NoFile
           /\ Markers(Cur) = {}

(* ---- C13 ---- *)

\* The source files (vector or XML) of a folder.
SourceFiles(d) ==
    {n \in FileNames : d.files[n] # NoFile /\ Lower(n.ext) \in {"svg", "xml"}}

\* A ledgered folder with an .updatesvg marker and a vector file but no XML
\* file has been processed.
C13_Case ==
    /\ Called /\ WasLedgered /\ UpdateSvgMarkers(Pre) # {}
    /\ last.pick.svg # NoName /\ last.pick.xml = NoName

\* C13 as claimed: in that case the call reports failure and generates no
\* variant, and leaves the folder with no source file, no variant and no
\* marker, its name still in the ledger.  (Stated for the calls in which no
\* file operation fails; the claim covers more.)
C13_Original ==
    (C13_Case /\ last.hit = {})
        => /\ last.result = "failed"
           /\ SourceFiles(Cur) = {}
           /\ Cur.variants = {}
           /\ Markers(Cur) = {}
           /\ last.folder \in converted_files
           /\ InLedgerFile(last.folder, ledgerFile)

\* C13 as amended: in that case the call reports failure, renders and
\* encodes nothing and leaves the ledger as it was, the name in it; when
\* no file operation fails, the vector file, the variants of its base name
\* and every .updatesvg marker are gone and no XML file exists (an
\* .updatexml marker of the folder is left in place).
C13_MissingMirrorFails ==
    C13_Case
        => /\ last.result = "failed"
           /\ "render" \notin last.ops
           /\ Cur.variants \subseteq Pre.variants
           /\ converted_files = last.conv
           /\ ledgerFile = last.ledger
           /\ InLedgerFile(last.folder, ledgerFile)
           /\ last.hit = {} =>
                 /\ Cur.files[last.pick.svg] = NoFile
                 /\ \A n \in SourceFiles(Cur) : Lower(n.ext) # "xml"
                 /\ \A v \in Cur.variants : v.base # last.pick.svg.base
                 /\ UpdateSvgMarkers(Cur) = {}
                 /\ UpdateXmlMarkers(Cur) = UpdateXmlMarkers(Pre)

\* The case has happened with old variants on disk and an .updatexml
\* marker next to the .updatesvg marker: the variants and the vector file
\* are gone.
C13_Witness ==
    /\ C13_Case /\ last.hit = {} /\ last.result = "failed"
    /\ Pre.variants # {} /\ Cur.variants = {}
    /\ UpdateXmlMarkers(Pre) # {}
    /\ SourceFiles(Cur) = {}

(* ---- C14 ---- *)

\* A ledgered folder holding both an .updatesvg and an .updatexml marker
\* has been processed.
C14_Case ==
    Called /\ WasLedgered /\ UpdateSvgMarkers(Pre) # {} /\ UpdateXmlMarkers(Pre) # {}

\* With both source files present and no failing operation, the order
\* .updatesvg first, .updatexml second shows in the result: both files end
\* with the text the XML file had (the other order would leave the text of
\* the vector file).
C14_SvgMarkerFirst ==
    (last.pick.svg # NoName /\ last.pick.xml # NoName /\ last.hit = {})
        => /\ Cur.files[FName(last.pick.xml.base, "svg")] = Pre.files[last.pick.xml]
           /\ Cur.files[FName(last.pick.xml.base, "xml")] = Pre.files[last.pick.xml]

\* C14 as claimed: with both markers present the .updatesvg handling comes
\* first and the .updatexml handling second, and the call evaluates the
\* precondition of each of them whatever became of the other.  (Stated for
\* the calls in which no file operation fails; the claim covers more.)
C14_Original ==
    (C14_Case /\ last.hit = {})
        => /\ "test_updatesvg" \in last.ops
           /\ "test_updatexml" \in last.ops
           /\ C14_SvgMarkerFirst

\* C14 as amended: with both markers present the .updatesvg handling comes
\* first and the .updatexml handling second; the .updatesvg handling is
\* carried out whenever a vector file exists and the .updatexml handling
\* whenever an XML file exists, whatever file operation failed before; the
\* call ends before the .updatexml precondition is evaluated exactly when
\* the .updatesvg handling found a vector file and no XML file.
C14_BothMarkers ==
    C14_Case
        => /\ "test_updatesvg" \in last.ops
           /\ ("test_updatexml" \in last.ops)
                 <=> ~(last.pick.svg # NoName /\ last.pick.xml = NoName)
           /\ last.pick.svg # NoName => "unlink_updatesvg" \in last.ops
           /\ last.pick.xml # NoName => "unlink_updatexml" \in last.ops
           /\ (last.pick.svg # NoName /\ last.pick.xml = NoName)
                 => (last.result = "failed" /\ "unlink_updatexml" \notin last.ops)
           /\ C14_SvgMarkerFirst

\* Both markers were present, the copy of the .updatesvg handling failed and
\* the .updatexml handling was carried out all the same.
C14_Witness ==
    /\ C14_Case /\ "xml_to_svg" \in last.hit
    /\ "unlink_updatexml" \in last.ops
    /\ UpdateXmlMarkers(Cur) = {}
    /\ last.result = "failed"

(* ---- C15 ---- *)

\* C15 (ledger record only on first-time, marker-free success): a call
\* changes the ledger, in memory and on disk, only when it completes the
\* normal conversion of a folder that was not ledgered, and then it adds
\* exactly the folder's name to both; every other call (regeneration, skip,
\* failure) leaves both as they were.  No call removes a name.
C15_LedgerFrame ==
    Called =>
        /\ last.conv \subseteq converted_files
        /\ IF ~WasLedgered /\ Markers(Pre) = {} /\ last.result = "ok"
           THEN /\ converted_files = last.conv \cup {last.folder}
                /\ ledgerFile.exists
                /\ SeqRange(ledgerFile.lines) = SeqRange(last.ledger.lines) \cup {last.folder}
           ELSE /\ converted_files = last.conv
                /\ ledgerFile = last.ledger

(* ---- C16 ---- *)

\* C16 (intermediate raster cleanup): after a call in which _create_variants
\* ran, whether it returned success or failure and whichever render or
\* encode failed, the intermediate raster _temp_<base_name>.png of the file
\* it ran on is not in the folder.
C16_TempRemoved ==
    (Called /\ "render" \in last.ops) => Master.base \notin Cur.temp

(* ---- C17 ---- *)

\* The variants of the generated base name now on disk.
MadeVariants == {v \in Cur.variants : v.base = Master.base}

\* C17 (aggregate encode success): a call in which _create_variants ran
\* gets success from it only if neither the render nor any encode failed,
\* and then all 15 variants are on disk; when an encode fails the call
\* reports the folder failed and leaves the ledger, in memory and on disk,
\* as it was (a folder on the normal path is not added), while the variants
\* saved before the failing encode are on disk.
C17_AggregateEncode ==
    (Called /\ "render" \in last.ops)
        => /\ last.result # "failed"
                 => /\ "render" \notin last.hit /\ "encode" \notin last.hit
                    /\ FullMatrix(Master.base, Cur.files[Master]) \subseteq Cur.variants
           /\ "encode" \in last.hit
                 => /\ last.result = "failed"
                    /\ converted_files = last.conv
                    /\ ledgerFile = last.ledger
                    /\ ~WasLedgered => last.folder \notin converted_files
                    /\ WriteVariants({}, Master.base, Cur.files[Master], last.at - 1)
                          \subseteq Cur.variants

\* The eighth encode failed in the conversion of a fresh folder: seven
\* variants are on disk, the folder is reported failed and is not ledgered.
C17_Witness ==
    /\ Called /\ ~WasLedgered /\ Markers(Pre) = {}
    /\ "encode" \in last.hit /\ last.at = 8
    /\ Pre.variants = {} /\ Cardinality(MadeVariants) = 7
    /\ last.result = "failed"
    /\ last.folder \notin converted_files

(* ---- C18 ---- *)

\* The folder of the call failed, marker-free, when it was processed last
\* (in an earlier launch), and is processed again.
C18_Case == Called /\ last.failedBefore /\ Markers(Pre) = {}

\* C18 (reattempt on the next run): a marker-free folder whose processing
\* failed is not in the ledger afterwards, neither in the in-memory set nor
\* in the set a load of the ledger file yields; the next
\* launch that reaches it does not skip it but goes through the conversion
\* again -- the missing file of the pair is made, the size check decides,
\* and the generation is run when the master declares 800 x 800 -- and when
\* the master now declares 800 x 800 and no file operation fails the call
\* succeeds, with the full matrix on disk and the folder in the ledger.
C18_Reattempt ==
    /\ (Called /\ Markers(Pre) = {} /\ last.result = "failed")
          => /\ last.folder \notin converted_files
             /\ last.folder \notin load_converted_list(ledgerFile)
    /\ C18_Case
          => /\ ~WasLedgered
             /\ OnlySvg => "svg_to_xml" \in last.ops
             /\ OnlyXml => "xml_to_svg" \in last.ops
             /\ Master = NoName => last.result = "failed"
             /\ (Master # NoName /\ Cur.files[Master] # NoFile)
                   => IF Declares800x800(Cur.files[Master])
                      THEN "render" \in last.ops
                      ELSE "render" \notin last.ops /\ last.result = "failed"
             /\ (Master # NoName /\ Cur.files[Master] # NoFile
                    /\ Declares800x800(Cur.files[Master]) /\ last.hit = {})
                   => /\ last.result = "ok"
                      /\ FullMatrix(Master.base, Cur.files[Master]) \subseteq Cur.variants
                      /\ last.folder \in converted_files
                      /\ ledgerFile = save_converted_list(converted_files)

(* ---- C19 ---- *)

\* C19 (ledger persistence): after every successful new conversion the
\* ledger file exists, its lines are in strictly ascending order (sorted, no
\* name twice) and are exactly the names of the in-memory set, the names
\* loaded at launch among them, and a load of the file yields that set.
C19_LedgerPersistence ==
    (Called /\ ~WasLedgered /\ Markers(Pre) = {} /\ last.result = "ok")
        => /\ ledgerFile.exists
           /\ \A i \in 1..(Len(ledgerFile.lines) - 1) :
                 LexLess(ledgerFile.lines[i], ledgerFile.lines[i + 1])
           /\ SeqRange(ledgerFile.lines) = converted_files
           /\ last.conv \subseteq SeqRange(ledgerFile.lines)
           /\ load_converted_list(ledgerFile) = converted_files

(* ---- C20 ---- *)

\* A ledgered folder with a vector file, an XML file and both markers has
\* been processed and no file operation failed.
C20_Case ==
    /\ Called /\ WasLedgered
    /\ UpdateSvgMarkers(Pre) # {} /\ UpdateXmlMarkers(Pre) # {}
    /\ last.pick.svg # NoName /\ last.pick.xml # NoName
    /\ last.hit = {}

====
